---- MODULE Spec2Model ----
(***************************************************************************)
(* Model of src/simulations/double_pendulum.py: the module-level pipeline  *)
(* (time grid, odeint, energy check, Cartesian projection, figure setup)   *)
(* and the per-frame callback make_plot driven by FuncAnimation.           *)
(*                                                                         *)
(* Units.  All quantities are exact integers:                              *)
(*   - angles are quarter turns: k stands for k*pi/2, so that sin and cos  *)
(*     are exactly -1, 0 or 1;                                             *)
(*   - angular velocities are whole rad/s, lengths whole m, masses whole   *)
(*     kg;                                                                 *)
(*   - g is in hundredths of m/s^2 (9.81 is 981);                          *)
(*   - energies are in units of 1/200 J (0.005 J), so EDRIFT = 0.05 is 10; *)
(*   - times (tmax, dt, trail_secs) are in hundredths of a second.         *)
(***************************************************************************)
EXTENDS Integers, Sequences, FiniteSets

VARIABLES
    cfg,          \* the module-level constants: L1, L2, m1, m2, g, tmax, dt, trail_secs, ns, frames
    y0,           \* initial conditions (theta1, z1, theta2, z2)
    y,            \* the trajectory returned by odeint; <<>> before the call
    x1, y1, x2, y2,   \* Cartesian bob positions; <<>> before the projection
    axes,         \* the artists on the current axes, in drawing order
    frame,        \* the index of the last make_plot call; -1 before the first
    prev,         \* the index of the make_plot call before the last; -1 if there is none
    pc,           \* position of the script
    exit_status,  \* process exit status; -1 while the script runs
    stderr        \* messages written to stderr

vars == <<cfg, y0, y, x1, y1, x2, y2, axes, frame, prev, pc, exit_status, stderr>>

----------------------------------------------------------------------------
(* Bounds of the model. *)

\* tmax of the small configurations (the time grid then has MaxT + 1 samples)
MaxT == 5
\* largest trail_secs of the small configurations
MaxTrailSecs == 5
\* largest segment count ns of the small configurations
MaxNs == 3
\* number of samples after y0 that odeint chooses freely; the samples after
\* them repeat the last one
MaxVary == 3

(* Program constants. *)

\* EDRIFT = 0.05, in units of 1/200 J
EDRIFT == 10
\* tmax = 30 s
RefTmax == 3000
\* dt = 0.01 s
RefDt == 1
\* trail_secs = 0.5 s
RefTrailSecs == 50
\* ns = 20
RefNs == 20
\* frames = 500
RefFrames == 500

----------------------------------------------------------------------------
(* Arithmetic helpers. *)

Min(a, b) == IF a < b THEN a ELSE b

Max(a, b) == IF a > b THEN a ELSE b

Abs(a) == IF a < 0 THEN -a ELSE a

CeilDiv(a, b) == (a + b - 1) \div b

\* np.cos at k quarter turns
np_cos(k) == CASE k % 4 = 0 -> 1 [] k % 4 = 2 -> -1 [] OTHER -> 0

\* np.sin at k quarter turns
np_sin(k) == CASE k % 4 = 1 -> 1 [] k % 4 = 3 -> -1 [] OTHER -> 0

\* np.arange(start, stop, step) for step > 0
np_arange(start, stop, step) ==
    [k \in 1..Max(CeilDiv(stop - start, step), 0) |-> start + (k - 1) * step]

RECURSIVE sum_range(_, _, _)
\* a[lo] + ... + a[hi], by halves
sum_range(a, lo, hi) ==
    IF lo > hi THEN 0
    ELSE IF lo = hi THEN a[lo]
    ELSE LET mid == (lo + hi) \div 2
         IN  sum_range(a, lo, mid) + sum_range(a, mid + 1, hi)

\* np.sum of a one-dimensional array
np_sum(a) == sum_range(a, 1, Len(a))

\* np.abs of a one-dimensional array
np_abs(a) == [k \in 1..Len(a) |-> Abs(a[k])]

\* np.max of a scalar (np.sum has already reduced the array to one number)
np_max(v) == v

\* Python's seq[lo:hi] on a 0-indexed sequence: both bounds are clamped to
\* the sequence, a negative bound counts from the end
py_index(n, k) == IF k < 0 THEN Max(n + k, 0) ELSE Min(k, n)

py_slice(seq, lo, hi) ==
    LET l == py_index(Len(seq), lo)
        h == py_index(Len(seq), hi)
    IN  IF l >= h THEN <<>> ELSE SubSeq(seq, l + 1, h)

----------------------------------------------------------------------------
(* Configurations. *)

\* L1, L2 = 1, 1; m1, m2 = 1, 1; g = 9.81
RefParams == [L1 |-> 1, L2 |-> 1, m1 |-> 1, m2 |-> 1, g |-> 981]

\* The physical parameters the model runs the script with: the values of the
\* source, an asymmetric pendulum, a zero mass and a zero gravity.
ParamChoices ==
    { RefParams,
      [L1 |-> 1, L2 |-> 2, m1 |-> 2, m2 |-> 1, g |-> 981],
      [L1 |-> 1, L2 |-> 1, m1 |-> 0, m2 |-> 1, g |-> 981],
      [L1 |-> 1, L2 |-> 1, m1 |-> 1, m2 |-> 1, g |-> 0] }

\* tmax, dt = 30, 0.01; trail_secs = 0.5; ns = 20; frames = 500
RefOptions ==
    [tmax |-> RefTmax, dt |-> RefDt, trail_secs |-> RefTrailSecs,
     ns |-> RefNs, frames |-> RefFrames]

\* Small time grids and trail settings; every sample is a frame.
SmallOptions ==
    { [tmax |-> MaxT, dt |-> 1, trail_secs |-> ts, ns |-> n, frames |-> MaxT + 1] :
        ts \in 1..MaxTrailSecs, n \in 1..MaxNs }

\* The pendulum states the model draws y0 and the samples of odeint from:
\* hanging at rest, bob 1 swinging through the bottom at 7 rad/s, and at
\* rest with rod 1 upright and rod 2 horizontal.
SampleStates == { <<0, 0, 0, 0>>, <<0, 7, 0, 0>>, <<2, 0, 1, 0>> }

\* t = np.arange(0, tmax + dt, dt)
t == np_arange(0, cfg.tmax + cfg.dt, cfg.dt)

\* max_trail = int(trail_secs / dt)
max_trail == cfg.trail_secs \div cfg.dt

----------------------------------------------------------------------------
(* total_energy, per sample; the globals it reads are the parameter p. *)

\* total_energy with the potential of rod 1 weighted by m1 alone
total_energy_m1_only(s, p) ==
    LET th1 == s[1]
        th1d == s[2]
        th2 == s[3]
        th2d == s[4]
        potential == - p.m1 * p.L1 * (2 * p.g) * np_cos(th1)
                     - p.m2 * p.L2 * (2 * p.g) * np_cos(th2)
        kinetic == 100 * p.m1 * (p.L1 * th1d) * (p.L1 * th1d)
                   + 100 * p.m2 * ( (p.L1 * th1d) * (p.L1 * th1d)
                                    + (p.L2 * th2d) * (p.L2 * th2d)
                                    + 2 * p.L1 * p.L2 * th1d * th2d * np_cos(th1 - th2) )
    IN  potential + kinetic

total_energy(s, p) ==
    LET th1 == s[1]
        th1d == s[2]
        th2 == s[3]
        th2d == s[4]
        potential == - (p.m1 + p.m2) * p.L1 * (2 * p.g) * np_cos(th1)
                     - p.m2 * p.L2 * (2 * p.g) * np_cos(th2)
        kinetic == 100 * p.m1 * (p.L1 * th1d) * (p.L1 * th1d)
                   + 100 * p.m2 * ( (p.L1 * th1d) * (p.L1 * th1d)
                                    + (p.L2 * th2d) * (p.L2 * th2d)
                                    + 2 * p.L1 * p.L2 * th1d * th2d * np_cos(th1 - th2) )
    IN  potential + kinetic

\* total_energy(y) - E, element by element
energy_deviation(traj, p) ==
    [k \in 1..Len(traj) |-> total_energy(traj[k], p) - total_energy(y0, p)]

\* the drift taken as the largest deviation of one sample: np.max(np.abs(...))
energy_drift_max(traj, p) ==
    LET d == np_abs(energy_deviation(traj, p))
    IN  CHOOSE m \in {d[k] : k \in 1..Len(d)} : \A k \in 1..Len(d) : d[k] <= m

\* np.max(np.sum(np.abs(total_energy(y) - E)))
energy_drift(traj, p) == np_max(np_sum(np_abs(energy_deviation(traj, p))))

\* the message formatted with the measured drift in place of EDRIFT
exit_message_drift ==
    [fmt |-> "Maximum energy drift of {} exceeded.", args |-> <<energy_drift(y, cfg)>>]

\* 'Maximum energy drift of {} exceeded.'.format(EDRIFT)
exit_message ==
    [fmt |-> "Maximum energy drift of {} exceeded.", args |-> <<EDRIFT>>]

----------------------------------------------------------------------------
(* The script. *)

Config(p, o) ==
    [L1 |-> p.L1, L2 |-> p.L2, m1 |-> p.m1, m2 |-> p.m2, g |-> p.g,
     tmax |-> o.tmax, dt |-> o.dt, trail_secs |-> o.trail_secs,
     ns |-> o.ns, frames |-> o.frames]

\* The configuration of the source.
RefConfig == Config(RefParams, RefOptions)

Init ==
    /\ cfg \in {Config(p, o) : p \in ParamChoices, o \in SmallOptions} \cup {RefConfig}
    /\ y0 \in SampleStates
    /\ y = <<>>
    /\ x1 = <<>> /\ y1 = <<>> /\ x2 = <<>> /\ y2 = <<>>
    /\ axes = <<>>
    /\ frame = -1
    /\ prev = -1
    /\ pc = "start"
    /\ exit_status = -1
    /\ stderr = <<>>

\* y = odeint(derive, y0, t, args=(L1, L2, m1, m2)): one row per grid point,
\* the first row y0; the later rows are the solver's, any sample states.
Odeint ==
    /\ pc = "start"
    /\ \E v \in [1..Min(Len(t) - 1, MaxVary) -> SampleStates] :
          y' = [k \in 1..Len(t) |-> IF k = 1 THEN y0 ELSE v[Min(k - 1, MaxVary)]]
    /\ pc' = "integrated"
    /\ UNCHANGED <<cfg, y0, x1, y1, x2, y2, axes, frame, prev, exit_status, stderr>>

\* the energy check without the sys.exit
EnergyCheckNoExit ==
    /\ pc = "integrated"
    /\ pc' = "checked"
    /\ UNCHANGED <<cfg, y0, y, x1, y1, x2, y2, axes, frame, prev, exit_status, stderr>>

\* E = total_energy(y0); if np.max(np.sum(np.abs(total_energy(y) - E))) > EDRIFT: sys.exit(...)
EnergyCheck ==
    /\ pc = "integrated"
    /\ IF energy_drift(y, cfg) > EDRIFT
       THEN /\ pc' = "exited"
            /\ exit_status' = 1
            /\ stderr' = Append(stderr, exit_message)
       ELSE /\ pc' = "checked"
            /\ UNCHANGED <<exit_status, stderr>>
    /\ UNCHANGED <<cfg, y0, y, x1, y1, x2, y2, axes, frame, prev>>

\* theta_1, theta_2 = y[:, 0], y[:, 2]; x1 = L1 * sin(theta_1); y1 = -L1 * cos(theta_1);
\* x2 = x1 + L2 * sin(theta_2); y2 = y1 - L2 * cos(theta_2)
Project ==
    /\ pc = "checked"
    /\ x1' = [k \in 1..Len(y) |-> cfg.L1 * np_sin(y[k][1])]
    /\ y1' = [k \in 1..Len(y) |-> - cfg.L1 * np_cos(y[k][1])]
    /\ x2' = [k \in 1..Len(y) |-> cfg.L1 * np_sin(y[k][1]) + cfg.L2 * np_sin(y[k][3])]
    /\ y2' = [k \in 1..Len(y) |-> - cfg.L1 * np_cos(y[k][1]) - cfg.L2 * np_cos(y[k][3])]
    /\ pc' = "projected"
    /\ UNCHANGED <<cfg, y0, y, axes, frame, prev, exit_status, stderr>>

\* A Line2D: its data, colour and alpha (a fraction <<numerator, denominator>>).
Line2D(xs, ys, c, alpha) ==
    [kind |-> "line", xdata |-> xs, ydata |-> ys, c |-> c, alpha |-> alpha]

\* A Circle patch at (cx, cy).
Circle(cx, cy, c) ==
    [kind |-> "circle", xdata |-> <<cx>>, ydata |-> <<cy>>, c |-> c, alpha |-> <<1, 1>>]

\* ax.plot(xs, ys, c=c, alpha=alpha) adds one line to the axes
ax_plot(a, xs, ys, c, alpha) == Append(a, Line2D(xs, ys, c, alpha))

\* ax.add_patch(patch)
ax_add_patch(a, patch) == Append(a, patch)

\* plt.cla() left out: the artists stay
plt_cla_keep(a) == a

\* plt.cla() removes every artist from the current axes
plt_cla(a) == <<>>

\* fig = plt.figure(); ax = plt.axes(...); line, = ax.plot([], [], lw=2);
\* ax.plot([0, x1[0], x2[0]], [0, y1[0], y2[0]], lw=2, c='k')
figure_axes ==
    ax_plot(ax_plot(<<>>, <<>>, <<>>, "C0", <<1, 1>>),
            <<0, x1[1], x2[1]>>, <<0, y1[1], y2[1]>>, "k", <<1, 1>>)

SetupFigure ==
    /\ pc = "projected"
    /\ axes' = figure_axes
    /\ pc' = "figure"
    /\ UNCHANGED <<cfg, y0, y, x1, y1, x2, y2, frame, prev, exit_status, stderr>>

\* the trail loop with alpha taken from the position among the plotted segments
trail_loop_alpha_by_position(i) ==
    LET ns == cfg.ns
        s == max_trail \div ns
        Plotted(j) == i - (ns - j) * s >= 0
        js == SelectSeq([k \in 1..ns |-> k - 1], Plotted)
    IN  [k \in 1..Len(js) |->
            LET j == js[k]
                imin == i - (ns - j) * s
            IN  [j |-> j, imin |-> imin, imax |-> imin + s + 1,
                 alpha |-> <<(k - 1) * (k - 1), ns * ns>>]]

\* the trail loop with imax = imin + s
trail_loop_short_slice(i) ==
    LET ns == cfg.ns
        s == max_trail \div ns
        Plotted(j) == i - (ns - j) * s >= 0
        js == SelectSeq([k \in 1..ns |-> k - 1], Plotted)
    IN  [k \in 1..Len(js) |->
            LET j == js[k]
                imin == i - (ns - j) * s
            IN  [j |-> j, imin |-> imin, imax |-> imin + s,
                 alpha |-> <<j * j, ns * ns>>]]

\* The trail loop of make_plot for frame i: one record per segment that is
\* plotted, in the order of the loop.
\*   s = max_trail // ns
\*   for j in range(ns): imin = i - (ns-j)*s; if imin < 0: continue
\*                       imax = imin + s + 1; alpha = (j/ns)**2
trail_loop(i) ==
    LET ns == cfg.ns
        s == max_trail \div ns
        Plotted(j) == i - (ns - j) * s >= 0
        js == SelectSeq([k \in 1..ns |-> k - 1], Plotted)
    IN  [k \in 1..Len(js) |->
            LET j == js[k]
                imin == i - (ns - j) * s
            IN  [j |-> j, imin |-> imin, imax |-> imin + s + 1,
                 alpha |-> <<j * j, ns * ns>>]]

RECURSIVE plot_trail(_, _)
\* ax.plot(x2[imin:imax], y2[imin:imax], c='r', alpha=alpha) for each segment
plot_trail(a, segs) ==
    IF segs = <<>> THEN a
    ELSE plot_trail(ax_plot(a, py_slice(x2, segs[1].imin, segs[1].imax),
                               py_slice(y2, segs[1].imin, segs[1].imax),
                               "r", segs[1].alpha),
                    Tail(segs))

\* make_plot(i) on axes holding the artists a: what the axes hold afterwards
make_plot(i, a) ==
    LET a0 == plt_cla(a)
        a1 == ax_plot(a0, <<0, x1[i + 1], x2[i + 1]>>, <<0, y1[i + 1], y2[i + 1]>>,
                      "k", <<1, 1>>)
        a2 == ax_add_patch(a1, Circle(0, 0, "k"))
        a3 == ax_add_patch(a2, Circle(x1[i + 1], y1[i + 1], "b"))
        a4 == ax_add_patch(a3, Circle(x2[i + 1], y2[i + 1], "r"))
    IN  plot_trail(a4, trail_loop(i))

\* anim = animation.FuncAnimation(fig, make_plot, init_func=init, frames=500, ...);
\* anim.save(...) first calls init(), which empties the data of `line`
\* (already empty)
StartAnimation ==
    /\ pc = "figure"
    /\ pc' = "saving"
    /\ UNCHANGED <<cfg, y0, y, x1, y1, x2, y2, axes, frame, prev, exit_status, stderr>>

\* The frame the animator draws after `frame`: range(frames) in order, and
\* again from 0 when the animation repeats
next_frame == IF frame = cfg.frames - 1 THEN 0 ELSE frame + 1

\* The animator calls make_plot(i): frames 0..frames-1 in order while saving,
\* then in the same order again and again while the window is shown. Every
\* configuration has frames <= len(t), so x1[i] exists.
MakePlot ==
    /\ \/ pc = "saving" /\ frame < cfg.frames - 1
       \/ pc = "showing"
    /\ axes' = make_plot(next_frame, axes)
    /\ frame' = next_frame
    /\ prev' = frame
    /\ UNCHANGED <<cfg, y0, y, x1, y1, x2, y2, pc, exit_status, stderr>>

\* anim.save(...) has drawn the last frame; plt.show() opens the window
SaveDone ==
    /\ pc = "saving"
    /\ frame = cfg.frames - 1
    /\ pc' = "showing"
    /\ UNCHANGED <<cfg, y0, y, x1, y1, x2, y2, axes, frame, prev, exit_status, stderr>>

\* The window is closed: plt.show() returns and the script ends
Finish ==
    /\ pc = "showing"
    /\ pc' = "done"
    /\ exit_status' = 0
    /\ UNCHANGED <<cfg, y0, y, x1, y1, x2, y2, axes, frame, prev, stderr>>

Next ==
    \/ Odeint
    \/ EnergyCheck
    \/ Project
    \/ SetupFigure
    \/ StartAnimation
    \/ MakePlot
    \/ SaveDone
    \/ Finish

Spec == Init /\ [][Next]_vars

\* make_plot called out of order: any frame index, whatever was drawn before
MakePlotAnyFrame ==
    /\ pc \in {"saving", "showing"}
    /\ \E i \in 0..(cfg.frames - 1) :
          /\ axes' = make_plot(i, axes)
          /\ frame' = i
          /\ prev' = frame
    /\ UNCHANGED <<cfg, y0, y, x1, y1, x2, y2, pc, exit_status, stderr>>

\* The small configurations only.
InitSmall == Init /\ cfg # RefConfig

NextAnyOrder == Next \/ MakePlotAnyFrame

\* The script with make_plot driven in any order.
AnyOrderSpec == InitSmall /\ [][NextAnyOrder]_vars

----------------------------------------------------------------------------
(* Definitions the properties share. *)

\* The trail lines on the axes, in drawing order.
TrailLines ==
    LET IsTrail(a) == a.kind = "line" /\ a.c = "r"
    IN  SelectSeq(axes, IsTrail)

\* |EnergyTrace[k] - E0| of sample k of the trajectory
DeviationAt(k) == Abs(total_energy(y[k], cfg) - total_energy(y0, cfg))

RECURSIVE WeightedSum(_)
\* the sum over the samples of DeviationAt, each distinct value times the
\* number of samples that have it
WeightedSum(vals) ==
    IF vals = {} THEN 0
    ELSE LET v == CHOOSE w \in vals : TRUE
         IN  v * Cardinality({k \in 1..Len(y) : DeviationAt(k) = v})
             + WeightedSum(vals \ {v})

SummedDeviation == WeightedSum({DeviationAt(k) : k \in 1..Len(y)})

Running == {"projected", "figure", "saving", "showing", "done"}

\* A zero or negative rod length, mass or g.
Pathological ==
    cfg.L1 <= 0 \/ cfg.L2 <= 0 \/ cfg.m1 <= 0 \/ cfg.m2 <= 0 \/ cfg.g <= 0

\* Positive physical parameters and a trail of at least one sample per segment.
OrdinaryConfig == ~Pathological /\ max_trail >= cfg.ns

----------------------------------------------------------------------------
(* C1 *)

\* C1: the projection happens only from a trajectory the energy check has
\* accepted (summed deviation within EDRIFT), a frame is drawn only after the
\* projection, and once the check has failed the script has ended: nothing is
\* projected or drawn afterwards.
GuardGatesPipeline ==
    [][ /\ x1' # x1 => (pc = "checked" /\ SummedDeviation <= EDRIFT)
        /\ (axes' # axes \/ frame' # frame) => (x1 # <<>> /\ pc \in Running)
        /\ pc = "exited" => UNCHANGED vars
        /\ pc' = "exited" => (x1' = <<>> /\ axes' = <<>> /\ frame' = -1) ]_vars

\* The check has failed on an integrated trajectory and nothing was projected.
GuardFailedWitness ==
    pc = "exited" /\ y # <<>> /\ SummedDeviation > EDRIFT /\ x1 = <<>> /\ frame = -1

(* C2 *)

\* C2: the run is rejected exactly when the sum over all samples of
\* |EnergyTrace[i] - E0| exceeds EDRIFT; a sum equal to EDRIFT is accepted.
DriftIsSummedDeviation ==
    pc \in {"checked", "exited"} => (pc = "exited" <=> SummedDeviation > EDRIFT)

\* A rejected trajectory none of whose samples deviates by more than EDRIFT.
RejectedThoughEachWithin ==
    /\ pc = "exited"
    /\ \A k \in 1..Len(y) : DeviationAt(k) <= EDRIFT

(* C3 *)

SegmentCountByMaxTrail ==
    (frame >= 0 /\ OrdinaryConfig) =>
        /\ frame < max_trail => Len(TrailLines) < cfg.ns
        /\ frame >= max_trail => Len(TrailLines) = cfg.ns

(* C5 *)

\* C5 as stated (for positive physical parameters and s >= 1): for frame
\* i >= max_trail every sample of the max_trail samples ending at i lies in a
\* plotted segment, and no segment reaches before sample i - max_trail or
\* beyond sample i.
TrailCoversWindow ==
    (frame >= max_trail /\ OrdinaryConfig) =>
        LET segs == trail_loop(frame)
        IN  /\ \A k \in (frame - max_trail + 1)..frame :
                  \E q \in 1..Len(segs) : segs[q].imin <= k /\ k < segs[q].imax
            /\ \A q \in 1..Len(segs) :
                  segs[q].imin >= frame - max_trail /\ segs[q].imax - 1 <= frame

(* C6 *)

\* C6: for frame i the plotted segments are those j in 0..ns-1 with
\* i - (ns-j)*s >= 0, in increasing j; the segment of j holds
\* bob2[imin : imin+s+1] (never empty) and alpha (j/ns)^2 of its own j, so
\* the n plotted segments are the n highest j, alphas strictly increase and
\* lie in [0, 1].
SegmentsFollowLoopIndex ==
    frame >= 0 =>
        LET ns == cfg.ns
            s == max_trail \div ns
            lo(j) == frame - (ns - j) * s
            plotted == {j \in 0..(ns - 1) : lo(j) >= 0}
            n == Cardinality(plotted)
            pts(seq, j) == [q \in 1..Min(s + 1, Len(seq) - lo(j)) |-> seq[lo(j) + q]]
        IN  /\ Len(TrailLines) = n
            /\ \A k \in 1..n :
                  LET j == ns - n + k - 1
                  IN  /\ j \in plotted
                      /\ TrailLines[k].alpha = <<j * j, ns * ns>>
                      /\ 0 <= j * j /\ j * j <= ns * ns
                      /\ TrailLines[k].xdata = pts(x2, j)
                      /\ TrailLines[k].ydata = pts(y2, j)
                      /\ TrailLines[k].xdata # <<>>
            /\ \A k \in 1..(n - 1) : TrailLines[k].alpha[1] < TrailLines[k + 1].alpha[1]

\* A frame near the start: some segments are skipped, some are plotted.
SomeSegmentsSkipped ==
    frame >= 0 /\ Len(TrailLines) > 0 /\ Len(TrailLines) < cfg.ns

(* C7 *)

\* C7 as stated: with a zero or negative mass, rod length or g the script
\* stops at configuration time: nothing is integrated, checked, projected or
\* drawn.
PathologicalConfigRejected ==
    Pathological => (pc = "start" /\ y = <<>> /\ x1 = <<>> /\ frame = -1)

(* C8 *)

\* C8: whatever frames were drawn before and in whatever order, after
\* make_plot(i) the axes hold exactly what make_plot(i) puts on the axes of
\* the fresh figure, and the call leaves the Cartesian sequences, the
\* trajectory, the initial state and the configuration unchanged.
FrameIndependentOfHistory ==
    [][ (pc \in {"saving", "showing"} /\ pc' = pc) =>
            /\ axes' = make_plot(frame', figure_axes)
            /\ UNCHANGED <<cfg, y0, y, x1, y1, x2, y2>> ]_vars

\* While saving, a frame was drawn after a later one: a call out of order.
FrameDrawnOutOfOrder ==
    pc = "saving" /\ prev > frame /\ frame >= 0 /\ Len(TrailLines) > 0

(* C9 *)

\* (theta1, omega1) and (theta2, omega2) swapped
swap_state(s) == <<s[3], s[4], s[1], s[2]>>

\* (L1, m1) and (L2, m2) swapped
swap_params(p) == [p EXCEPT !.L1 = p.L2, !.L2 = p.L1, !.m1 = p.m2, !.m2 = p.m1]

\* The states of the run: y0 and the samples of the trajectory.
StatesOfRun == {y0} \cup {y[k] : k \in 1..Len(y)}

\* What the swap takes away from the energy, in units of 1/200 J:
\*   g*(m1*L2*cos(th2) - m2*L1*cos(th1)) + m2*(L1*w1)^2/2 - m1*(L2*w2)^2/2
\*   + (m2 - m1)*L1*L2*w1*w2*cos(th1 - th2)
SwapDefect(s, p) ==
    2 * p.g * (p.m1 * p.L2 * np_cos(s[3]) - p.m2 * p.L1 * np_cos(s[1]))
    + 100 * p.m2 * (p.L1 * s[2]) * (p.L1 * s[2])
    - 100 * p.m1 * (p.L2 * s[4]) * (p.L2 * s[4])
    + 200 * (p.m2 - p.m1) * p.L1 * p.L2 * s[2] * s[4] * np_cos(s[1] - s[3])

\* C9 as stated (for positive physical parameters, on the states the energy
\* check has evaluated): the energy of the swapped state under the swapped
\* parameters equals the energy of the state.
EnergySwapInvariant ==
    (~Pathological /\ pc \in {"checked", "exited"}) => \A s \in StatesOfRun :
        total_energy(swap_state(s), swap_params(cfg)) = total_energy(s, cfg)

\* C9 amended: the energy of the swapped state under the swapped parameters
\* is the energy of the state minus SwapDefect; the two agree exactly when
\* SwapDefect is zero. (Stated up to the energy check; the states of the run
\* do not change afterwards.)
EnergySwapDefect ==
    pc \in {"start", "integrated", "checked", "exited"} =>
        \A s \in StatesOfRun :
            total_energy(swap_state(s), swap_params(cfg))
                = total_energy(s, cfg) - SwapDefect(s, cfg)

\* The energy check has evaluated a moving state of the asymmetric pendulum
\* whose swapped energy differs.
SwapChangesEnergy ==
    /\ pc \in {"checked", "exited"}
    /\ cfg.m1 # cfg.m2
    /\ \E s \in StatesOfRun :
          s[2] # 0 /\ total_energy(swap_state(s), swap_params(cfg)) # total_energy(s, cfg)

(* C10 *)

\* C10: in every frame the animator draws, each plotted segment has
\* 0 <= imin < imax <= i+1 <= N, so its slice is not clamped and holds s+1
\* points; the last plotted segment is j = ns-1 and ends at sample i; each
\* segment ends on the sample the next one starts on.
SlicesWithinTrajectory ==
    frame >= 0 =>
        LET segs == trail_loop(frame)
            s == max_trail \div cfg.ns
            n == Len(segs)
        IN  /\ Len(TrailLines) = n
            /\ \A k \in 1..n :
                  /\ 0 <= segs[k].imin
                  /\ segs[k].imin < segs[k].imax
                  /\ segs[k].imax <= frame + 1
                  /\ frame + 1 <= Len(x2)
                  /\ Len(TrailLines[k].xdata) = s + 1
                  /\ Len(TrailLines[k].ydata) = s + 1
            /\ n > 0 => (segs[n].j = cfg.ns - 1 /\ segs[n].imax - 1 = frame)
            /\ \A k \in 1..(n - 1) :
                  /\ segs[k].imax - 1 = segs[k + 1].imin
                  /\ TrailLines[k].xdata[s + 1] = TrailLines[k + 1].xdata[1]
                  /\ TrailLines[k].ydata[s + 1] = TrailLines[k + 1].ydata[1]

\* Frame 49 of the configured animation (ns = 20, max_trail = 50), with all
\* 20 segments plotted.
ReferenceFrameFullTrail ==
    cfg = RefConfig /\ frame = RefTrailSecs - 1 /\ Len(TrailLines) = RefNs

====
